---- MODULE Spec2Model ----
(***************************************************************************)
(* Model of the Pstryk integration: the API client (api.py), the push     *)
(* client (ws.py) and the config-entry setup (__init__.py).                *)
(*                                                                         *)
(* The program is a set of asyncio tasks.  A task runs without            *)
(* interruption between two awaits, so every action below is one such      *)
(* segment: it starts when the awaited response (or message, or timer)     *)
(* arrives and runs up to the next await.  The position of each task at    *)
(* its await is pc (host task: setup, then polls), ws_pc (push task),      *)
(* mt_pc (midnight_timer) and stop_pc (a stop_websocket call); cancelling  *)
(* says that the push task has been cancelled and has not yet seen the     *)
(* CancelledError.                                                         *)
(* Time is in seconds; sleep delays are in milliseconds.                   *)
(***************************************************************************)
EXTENDS Integers, Sequences, FiniteSets, TLC

VARIABLES
    now, ticks,
    pc, cred, last_data, session_open, setup, ws_created, polls,
    calls, auth_obs, ens_obs, rt_obs, poll_ret,
    ws_pc, ws_task, ws_callback, shutdown, ws, last_reconnect,
    first_message_ignored, retry_count, backoff, ws_calls,
    slept, consec, last_attempt, rx, dl,
    handed, written, push_obs,
    stop_pc, cancelling, stop_from,
    poll_end, hs_obs,
    start_obs,
    mt_pc, mt_wake, mt_obs

timeVars == <<now, ticks>>
hostVars == <<pc, cred, last_data, session_open, setup, ws_created, polls>>
hostObs  == <<calls, auth_obs, ens_obs, rt_obs, poll_ret>>
wsVars   == <<ws_pc, ws_task, ws_callback, shutdown, ws, last_reconnect,
              first_message_ignored, retry_count, backoff, ws_calls>>
wsObs    == <<slept, consec, last_attempt, rx, dl>>
dataObs  == <<handed, written, push_obs>>
stopVars == <<stop_pc, cancelling, stop_from>>
timerVars == <<mt_pc, mt_wake, mt_obs>>
vars     == <<timeVars, hostVars, hostObs, wsVars, wsObs, dataObs, stopVars,
              poll_end, hs_obs, start_obs, timerVars>>

(***************************************************************************)
(* Bounds of the model.                                                    *)
(***************************************************************************)
MaxTicks == 2       \* number of times the clock advances
MaxPolls == 2       \* number of get_prices calls
MaxRetry == 8       \* largest retry_count the push loop is followed to
MaxMsgs  == 3       \* data messages followed on one connection

(***************************************************************************)
(* Program constants.                                                      *)
(***************************************************************************)
TokenValidity     == 600     \* timedelta(minutes=10), in seconds
BaseBackoff       == 5       \* backoff = 5
MaxBackoff        == 300     \* max_backoff = 300
ReconnectInterval == 7200    \* timedelta(hours=2), in seconds

(***************************************************************************)
(* Python values.  None is "None" where the other values are strings; an   *)
(* optional number is a record so that it compares with numbers.           *)
(***************************************************************************)
None    == "None"
NoneV   == [some |-> FALSE, v |-> 0]
Some(x) == [some |-> TRUE, v |-> x]

Min(a, b) == IF a <= b THEN a ELSE b
Last(s)   == s[Len(s)]

\* d.update(u): u's keys win, the other keys of d are kept.
DictUpdate(d, u) ==
    [k \in (DOMAIN d) \cup (DOMAIN u) |-> IF k \in DOMAIN u THEN u[k] ELSE d[k]]

(***************************************************************************)
(* What the server can answer.  Every response carries the same fields so  *)
(* that responses compare.                                                 *)
(***************************************************************************)
\* POST /auth/token/: 200 with both tokens, 200 without "refresh", 200
\* without "access", another status, a timeout or network error.
LoginResponses ==
    { [kind |-> "ok",        access |-> "a1", refresh |-> "r1"],
      [kind |-> "norefresh", access |-> "a1", refresh |-> None],
      [kind |-> "noaccess",  access |-> None, refresh |-> None],
      [kind |-> "status",    access |-> None, refresh |-> None],
      [kind |-> "error",     access |-> None, refresh |-> None] }

\* POST /auth/refresh: 200 with a new access token, 200 without "access",
\* another status, a timeout or network error.
RefreshResponses ==
    { [kind |-> "ok",       access |-> "a2"],
      [kind |-> "noaccess", access |-> None],
      [kind |-> "status",   access |-> None],
      [kind |-> "error",    access |-> None] }

\* GET meter endpoint: 200 with a list whose first record has an id, 200
\* with a first record without id, 200 with an empty list or no list,
\* another status, a timeout or network error.
MeterResponses ==
    { [kind |-> "ok",     id |-> "m1"],
      [kind |-> "noid",   id |-> None],
      [kind |-> "empty",  id |-> None],
      [kind |-> "status", id |-> None],
      [kind |-> "error",  id |-> None] }

(***************************************************************************)
(* PstrykApiClient: credentials and the three calls that change them.     *)
(* Each call is split at its await: XRequest is what is sent, XResponse    *)
(* what the code does with the answer.  A result's raised says whether an  *)
(* exception leaves the call.                                              *)
(***************************************************************************)
\* PstrykApiClient.__init__
NewCred ==
    [access_token |-> None, refresh_token |-> None,
     token_expires |-> NoneV, meter_id |-> None]

Request(ep, tok) == [ep |-> ep, tok |-> tok]

\* authenticate: the login POST carries email and password, no token.
AuthenticateRequest == Request("login", None)

\* authenticate, after the POST: on 200 the fields are assigned in order
\* (access, refresh, expiry), so a body without "refresh" raises KeyError
\* after the access token is stored; every exception is caught.
\* next = "meter": the call goes on to _fetch_meter_id and returns its result.
AuthenticateResponse(c, resp, t) ==
    CASE resp.kind = "ok" ->
            [c |-> [c EXCEPT !.access_token = resp.access,
                             !.refresh_token = resp.refresh,
                             !.token_expires = Some(t + TokenValidity)],
             next |-> "meter", ret |-> FALSE, raised |-> FALSE]
      [] resp.kind = "norefresh" ->
            [c |-> [c EXCEPT !.access_token = resp.access],
             next |-> "return", ret |-> FALSE, raised |-> FALSE]
      [] OTHER ->
            [c |-> c, next |-> "return", ret |-> FALSE, raised |-> FALSE]

\* _fetch_meter_id: GET with the bearer token.
FetchMeterIdRequest(c) == Request("meter", c.access_token)

\* _fetch_meter_id, after the GET: the first record's id is stored even when
\* it is missing (None), and the call returns True only for a truthy id.
FetchMeterIdResponse(c, resp) ==
    CASE resp.kind \in {"ok", "noid"} ->
            [c |-> [c EXCEPT !.meter_id = resp.id],
             ret |-> (resp.id # None), raised |-> FALSE]
      [] OTHER ->
            [c |-> c, ret |-> FALSE, raised |-> FALSE]

\* refresh_token: the POST body is {"refresh": self._access_token}.
RefreshTokenRequest(c) == Request("refresh", c.access_token)

\* Faulty variant: a refresh that stores the new token without a new expiry.
RefreshTokenResponseKeepsExpiry(c, resp, t) ==
    CASE resp.kind = "ok" ->
            [c |-> [c EXCEPT !.access_token = resp.access],
             ret |-> TRUE, raised |-> FALSE]
      [] OTHER ->
            [c |-> c, ret |-> FALSE, raised |-> FALSE]

\* Faulty variant: a refresh that drops the access token when it fails.
RefreshTokenResponseClearsToken(c, resp, t) ==
    CASE resp.kind = "ok" ->
            [c |-> [c EXCEPT !.access_token = resp.access,
                             !.token_expires = Some(t + TokenValidity)],
             ret |-> TRUE, raised |-> FALSE]
      [] OTHER ->
            [c |-> [c EXCEPT !.access_token = None],
             ret |-> FALSE, raised |-> FALSE]

\* refresh_token, after the POST: on 200 data["access"] is read before
\* anything is assigned; every exception is caught.
RefreshTokenResponse(c, resp, t) ==
    CASE resp.kind = "ok" ->
            [c |-> [c EXCEPT !.access_token = resp.access,
                             !.token_expires = Some(t + TokenValidity)],
             ret |-> TRUE, raised |-> FALSE]
      [] OTHER ->
            [c |-> c, ret |-> FALSE, raised |-> FALSE]

\* Faulty variant: the expiry comparison turned around.
NeedsTokenInverted(c, t) ==
    \/ c.access_token = None
    \/ (c.token_expires.some /\ t <= c.token_expires.v)

\* The condition of _ensure_token_valid.
NeedsToken(c, t) ==
    \/ c.access_token = None
    \/ (c.token_expires.some /\ t >= c.token_expires.v)

(***************************************************************************)
(* get_prices: the price response and the price group built from it.      *)
(* A frame's start is the hour it begins at, counted from midnight of the  *)
(* first day (24 = the first hour of the next day).                        *)
(***************************************************************************)
Frame(start, price) == [start |-> start, price_gross |-> price]

\* GET pricing endpoint: 200 with frames (and an average or not), 200 with
\* an empty body, another status, a timeout or network error.
PriceResponses ==
    { [kind |-> "ok",
       frames |-> << Frame(Some(0), Some(50)), Frame(Some(1), Some(30)) >>,
       price_gross_avg |-> Some(40)],
      [kind |-> "ok",
       frames |-> << Frame(Some(0), Some(0)), Frame(Some(1), Some(20)),
                     Frame(NoneV, Some(10)) >>,
       price_gross_avg |-> NoneV],
      [kind |-> "empty",  frames |-> << >>, price_gross_avg |-> NoneV],
      [kind |-> "status", frames |-> << >>, price_gross_avg |-> NoneV],
      [kind |-> "error",  frames |-> << >>, price_gross_avg |-> NoneV] }

\* datetime.hour of a time in seconds, and of a frame's start.
HourOfTime(t)  == (t \div 3600) % 24
HourOfStart(h) == h % 24

\* The loop over response["frames"]: acc is (hourly_prices, current_price,
\* next_hour_price) after the first i-1 frames.  A frame counts only when
\* start and price are both truthy, so a price of 0 is skipped.
RECURSIVE PriceLoop(_, _, _, _)
PriceLoop(frames, i, t, acc) ==
    IF i > Len(frames) THEN acc
    ELSE LET start_time == frames[i].start
             price      == frames[i].price_gross
         IN  IF start_time.some /\ (price.some /\ price.v # 0)
             THEN PriceLoop(frames, i + 1, t,
                    [hourly_prices |->
                        DictUpdate(acc.hourly_prices,
                                   [k \in {start_time.v} |-> price.v]),
                     current_price |->
                        IF HourOfStart(start_time.v) = HourOfTime(t)
                        THEN price ELSE acc.current_price,
                     next_hour_price |->
                        IF HourOfStart(start_time.v) = (HourOfTime(t) + 1) % 24
                        THEN price ELSE acc.next_hour_price])
             ELSE PriceLoop(frames, i + 1, t, acc)

\* price_data of get_prices.  prices_updated is the time of the call.
PriceData(resp, t) ==
    LET acc == PriceLoop(resp.frames, 1, t,
                   [hourly_prices |-> << >>, current_price |-> NoneV,
                    next_hour_price |-> NoneV])
    IN  [current_price   |-> acc.current_price,
         next_hour_price |-> acc.next_hour_price,
         today_price_avg |-> resp.price_gross_avg,
         hourly_prices   |-> acc.hourly_prices,
         prices_updated  |-> t]

PriceKeys ==
    {"current_price", "next_hour_price", "today_price_avg", "hourly_prices",
     "prices_updated"}

\* Faulty variant: the price group is written key by key across an await,
\* so that the snapshot is seen with hourly_prices alone.
GetPricesResultWritesOneKey(resp, snapshot, t) ==
    IF resp.kind = "ok"
    THEN [ret |-> "data",
          last_data |-> DictUpdate(snapshot,
                            [k \in {"hourly_prices"} |-> PriceData(resp, t)[k]])]
    ELSE [ret |-> "None", last_data |-> snapshot]

\* Faulty variant: a failed fetch empties the stored snapshot.
GetPricesResultClearsOnFailure(resp, snapshot, t) ==
    IF resp.kind = "ok"
    THEN [ret |-> "data", last_data |-> DictUpdate(snapshot, PriceData(resp, t))]
    ELSE [ret |-> "None", last_data |-> << >>]

\* get_prices after _make_api_call: _make_api_call returns the body only on
\* 200, and get_prices takes the body only when it is truthy.  The price
\* group is merged into the stored snapshot, which is what is returned.
GetPricesResult(resp, snapshot, t) ==
    IF resp.kind = "ok"
    THEN [ret |-> "data", last_data |-> DictUpdate(snapshot, PriceData(resp, t))]
    ELSE [ret |-> "None", last_data |-> snapshot]

\* PstrykSensor.native_value (sensor.py): coordinator.data.get(sensor_type),
\* None for a key the snapshot does not hold.
SensorNativeValue(data, sensor_type) ==
    IF sensor_type \in DOMAIN data THEN data[sensor_type] ELSE NoneV

(***************************************************************************)
(* Observations.  calls lists the requests the host task has sent in the   *)
(* current operation (setup, or one get_prices); auth_obs, ens_obs and     *)
(* rt_obs describe the latest authenticate, _ensure_token_valid and        *)
(* refresh_token call; handed is the snapshot last handed to the host and  *)
(* written the latest value written for every key.                         *)
(***************************************************************************)
NoAuthObs == [first |-> "none", last |-> "none", pre |-> NewCred]
NoEnsObs  ==
    [ran |-> FALSE, done |-> FALSE, raised |-> FALSE, at |-> 0,
     pre |-> NewCred, post |-> NewCred, from |-> 0, to |-> 0]
NoRtObs   ==
    [by |-> "none", kind |-> "none", access |-> None, ret |-> FALSE,
     raised |-> FALSE, at |-> 0, pre |-> NewCred, post |-> NewCred]

\* How the latest get_prices ended: the endpoint and the response that ended
\* it.  hs_obs: the time and the credentials at the latest handshake, and
\* how it ended.
NoPollEnd == [ep |-> "none", kind |-> "none", frames |-> << >>]
NoHsObs   == [at |-> 0, cred |-> NewCred, outcome |-> "none"]

\* The latest observed start_websocket call.
NoStartObs == [found_task |-> FALSE, during |-> "none"]

BoolStr(b) == IF b THEN "True" ELSE "False"

RtObs(by, resp, r, c, t) ==
    [by |-> by, kind |-> resp.kind, access |-> resp.access, ret |-> r.ret,
     raised |-> r.raised, at |-> t, pre |-> c, post |-> r.c]

\* The requests _ensure_token_valid sent.
EnsureRequests == SubSeq(calls, ens_obs.from + 1, ens_obs.to)

(***************************************************************************)
(* async_setup_entry (__init__.py) up to the creation of the push client.  *)
(***************************************************************************)
\* session = aiohttp.ClientSession(); api_client = PstrykApiClient(...);
\* await api_client.authenticate(): up to the login POST.
AsyncSetupEntry ==
    /\ pc = "new"
    /\ session_open' = TRUE
    /\ calls' = << AuthenticateRequest >>
    /\ pc' = "s_login"
    /\ UNCHANGED <<cred, last_data, setup, ws_created, polls, auth_obs,
                   ens_obs, rt_obs, poll_ret>>
    /\ UNCHANGED <<stopVars, poll_end, hs_obs>>
    /\ UNCHANGED <<timeVars, wsVars, wsObs, dataObs>>
    /\ UNCHANGED <<timerVars, start_obs>>

\* The rest of async_setup_entry once authenticate has returned ret or
\* raised: only an exception closes the session and raises
\* ConfigEntryNotReady; the return value is not looked at.
SetupFinish(c, ret, raised) ==
    /\ cred' = c
    /\ auth_obs' = [first |-> BoolStr(ret), last |-> BoolStr(ret), pre |-> NewCred]
    /\ IF raised
       THEN /\ session_open' = FALSE
            /\ setup' = "notready"
            /\ ws_created' = FALSE
            /\ pc' = "failed"
       ELSE /\ session_open' = session_open
            /\ setup' = "loaded"
            /\ ws_created' = TRUE
            /\ pc' = "idle"

\* The login response arrives during setup.
SetupOnLogin(resp) ==
    /\ pc = "s_login"
    /\ LET r == AuthenticateResponse(cred, resp, now)
       IN  IF r.next = "meter" /\ ~r.raised
           THEN /\ cred' = r.c
                /\ calls' = Append(calls, FetchMeterIdRequest(r.c))
                /\ pc' = "s_meter"
                /\ UNCHANGED <<session_open, setup, ws_created, auth_obs>>
           ELSE /\ SetupFinish(r.c, r.ret, r.raised)
                /\ UNCHANGED calls
    /\ UNCHANGED <<last_data, polls, ens_obs, rt_obs, poll_ret>>
    /\ UNCHANGED <<stopVars, poll_end, hs_obs>>
    /\ UNCHANGED <<timeVars, wsVars, wsObs, dataObs>>
    /\ UNCHANGED <<timerVars, start_obs>>

\* The meter response arrives during setup.
SetupOnMeter(resp) ==
    /\ pc = "s_meter"
    /\ LET m == FetchMeterIdResponse(cred, resp)
       IN  SetupFinish(m.c, m.ret, m.raised)
    /\ UNCHANGED <<calls, last_data, polls, ens_obs, rt_obs, poll_ret>>
    /\ UNCHANGED <<stopVars, poll_end, hs_obs>>
    /\ UNCHANGED <<timeVars, wsVars, wsObs, dataObs>>
    /\ UNCHANGED <<timerVars, start_obs>>

(***************************************************************************)
(* get_prices -> _make_api_call -> _ensure_token_valid (api.py).           *)
(***************************************************************************)
\* _make_api_call after _ensure_token_valid: the GET with the bearer token.
SendPrices(c, cs) ==
    /\ cred' = c
    /\ calls' = Append(cs, Request("prices", c.access_token))
    /\ pc' = "prices"

\* _ensure_token_valid returns.
EnsureReturn(c, cs, e) ==
    /\ ens_obs' = [e EXCEPT !.done = TRUE, !.post = c, !.to = Len(cs)]
    /\ SendPrices(c, cs)

\* An exception leaves _ensure_token_valid: it is called outside the try of
\* _make_api_call, so it leaves get_prices too.
EnsureRaise(c, e) ==
    /\ ens_obs' = [e EXCEPT !.done = TRUE, !.raised = TRUE, !.post = c,
                            !.to = Len(calls)]
    /\ cred' = c
    /\ pc' = "idle"
    /\ UNCHANGED calls

\* Faulty variant: an _ensure_token_valid that never tries the refresh token.
EnsureTokenValidNoRefresh(c, cs) ==
    LET e == [ran |-> TRUE, done |-> FALSE, raised |-> FALSE, at |-> now,
              pre |-> c, post |-> c, from |-> Len(cs), to |-> Len(cs)]
    IN  IF NeedsToken(c, now)
        THEN /\ ens_obs' = e
             /\ cred' = c
             /\ calls' = Append(cs, AuthenticateRequest)
             /\ pc' = "login"
        ELSE EnsureReturn(c, cs, e)

\* _ensure_token_valid, up to its first await or its return.
EnsureTokenValid(c, cs) ==
    LET e == [ran |-> TRUE, done |-> FALSE, raised |-> FALSE, at |-> now,
              pre |-> c, post |-> c, from |-> Len(cs), to |-> Len(cs)]
    IN  IF NeedsToken(c, now)
        THEN IF c.refresh_token # None
             THEN /\ ens_obs' = e
                  /\ cred' = c
                  /\ calls' = Append(cs, RefreshTokenRequest(c))
                  /\ pc' = "refresh"
             ELSE /\ ens_obs' = e
                  /\ cred' = c
                  /\ calls' = Append(cs, AuthenticateRequest)
                  /\ pc' = "login"
        ELSE EnsureReturn(c, cs, e)

\* get_prices is called by the host: _make_api_call up to its first await.
GetPricesCall ==
    /\ pc = "idle"
    /\ polls < MaxPolls
    /\ polls' = polls + 1
    /\ poll_ret' = "pending"
    /\ IF cred.meter_id = None
       THEN /\ calls' = << FetchMeterIdRequest(cred) >>
            /\ pc' = "meter0"
            /\ ens_obs' = NoEnsObs
            /\ UNCHANGED cred
       ELSE EnsureTokenValid(cred, << >>)
    /\ poll_end' = NoPollEnd
    /\ UNCHANGED <<last_data, session_open, setup, ws_created, auth_obs, rt_obs>>
    /\ UNCHANGED <<stopVars, hs_obs>>
    /\ UNCHANGED <<timeVars, wsVars, wsObs, dataObs>>
    /\ UNCHANGED start_obs

\* Faulty variant: a _make_api_call that resolves the meter id on every call.
GetPricesAlwaysFetchesMeter ==
    /\ pc = "idle"
    /\ polls < MaxPolls
    /\ polls' = polls + 1
    /\ poll_ret' = "pending"
    /\ calls' = << FetchMeterIdRequest(cred) >>
    /\ pc' = "meter0"
    /\ ens_obs' = NoEnsObs
    /\ UNCHANGED cred
    /\ poll_end' = NoPollEnd
    /\ UNCHANGED <<last_data, session_open, setup, ws_created, auth_obs, rt_obs>>
    /\ UNCHANGED <<stopVars, hs_obs>>
    /\ UNCHANGED <<timeVars, wsVars, wsObs, dataObs>>
    /\ UNCHANGED <<timerVars, start_obs>>

\* get_prices called by the host (the coordinator, the update_prices
\* service).
GetPrices ==
    /\ GetPricesCall
    /\ UNCHANGED timerVars

\* The meter response arrives in _make_api_call.
PollOnMeter(resp) ==
    /\ pc = "meter0"
    /\ LET m == FetchMeterIdResponse(cred, resp)
       IN  IF m.ret
           THEN /\ EnsureTokenValid(m.c, calls)
                /\ UNCHANGED <<poll_ret, poll_end>>
           ELSE /\ cred' = m.c
                /\ pc' = "idle"
                /\ poll_ret' = "None"
                /\ poll_end' = [ep |-> "meter", kind |-> resp.kind,
                                frames |-> << >>]
                /\ UNCHANGED <<calls, ens_obs>>
    /\ UNCHANGED <<last_data, session_open, setup, ws_created, polls, auth_obs,
                   rt_obs>>
    /\ UNCHANGED <<stopVars, hs_obs>>
    /\ UNCHANGED <<timeVars, wsVars, wsObs, dataObs>>
    /\ UNCHANGED <<timerVars, start_obs>>

\* The refresh response arrives in _ensure_token_valid: on True it returns,
\* otherwise it goes on to authenticate.
EnsureOnRefresh(resp) ==
    /\ pc = "refresh"
    /\ LET r == RefreshTokenResponse(cred, resp, now)
       IN  /\ rt_obs' = RtObs("poll", resp, r, cred, now)
           /\ IF r.raised
              THEN EnsureRaise(r.c, ens_obs) /\ poll_ret' = "raised"
              ELSE IF r.ret
              THEN EnsureReturn(r.c, calls, ens_obs) /\ UNCHANGED poll_ret
              ELSE /\ cred' = r.c
                   /\ calls' = Append(calls, AuthenticateRequest)
                   /\ pc' = "login"
                   /\ UNCHANGED <<ens_obs, poll_ret>>
    /\ UNCHANGED <<last_data, session_open, setup, ws_created, polls, auth_obs>>
    /\ UNCHANGED <<stopVars, poll_end, hs_obs>>
    /\ UNCHANGED <<timeVars, wsVars, wsObs, dataObs>>
    /\ UNCHANGED <<timerVars, start_obs>>

\* The login response arrives in the authenticate of _ensure_token_valid.
EnsureOnLogin(resp) ==
    /\ pc = "login"
    /\ LET r == AuthenticateResponse(cred, resp, now)
       IN  IF r.raised
           THEN /\ EnsureRaise(r.c, ens_obs)
                /\ poll_ret' = "raised"
                /\ auth_obs' = [auth_obs EXCEPT !.last = "raised", !.pre = cred]
           ELSE IF r.next = "meter"
           THEN /\ cred' = r.c
                /\ calls' = Append(calls, FetchMeterIdRequest(r.c))
                /\ pc' = "meter1"
                /\ auth_obs' = [auth_obs EXCEPT !.pre = cred]
                /\ UNCHANGED <<ens_obs, poll_ret>>
           ELSE /\ EnsureReturn(r.c, calls, ens_obs)
                /\ auth_obs' = [auth_obs EXCEPT !.last = BoolStr(r.ret), !.pre = cred]
                /\ UNCHANGED poll_ret
    /\ UNCHANGED <<last_data, session_open, setup, ws_created, polls, rt_obs>>
    /\ UNCHANGED <<stopVars, poll_end, hs_obs>>
    /\ UNCHANGED <<timeVars, wsVars, wsObs, dataObs>>
    /\ UNCHANGED <<timerVars, start_obs>>

\* The meter response arrives in the authenticate of _ensure_token_valid.
EnsureOnMeter(resp) ==
    /\ pc = "meter1"
    /\ LET m == FetchMeterIdResponse(cred, resp)
       IN  /\ auth_obs' = [auth_obs EXCEPT !.last = BoolStr(m.ret)]
           /\ IF m.raised
              THEN EnsureRaise(m.c, ens_obs) /\ poll_ret' = "raised"
              ELSE EnsureReturn(m.c, calls, ens_obs) /\ UNCHANGED poll_ret
    /\ UNCHANGED <<last_data, session_open, setup, ws_created, polls, rt_obs>>
    /\ UNCHANGED <<stopVars, poll_end, hs_obs>>
    /\ UNCHANGED <<timeVars, wsVars, wsObs, dataObs>>
    /\ UNCHANGED <<timerVars, start_obs>>

\* The price response arrives: the rest of _make_api_call and get_prices.
\* A snapshot that get_prices returns is handed to the host.
PollOnPrices(resp) ==
    /\ pc = "prices"
    /\ LET g == GetPricesResult(resp, last_data, now)
       IN  /\ last_data' = g.last_data
           /\ poll_ret' = g.ret
           /\ IF g.ret = "data"
              THEN /\ handed' = [src |-> "poll", data |-> g.last_data]
                   /\ written' = DictUpdate(written, PriceData(resp, now))
              ELSE UNCHANGED <<handed, written>>
    /\ poll_end' = [ep |-> "prices", kind |-> resp.kind, frames |-> resp.frames]
    /\ pc' = "idle"
    /\ UNCHANGED <<cred, session_open, setup, ws_created, polls, calls,
                   auth_obs, ens_obs, rt_obs>>
    /\ UNCHANGED <<stopVars, hs_obs>>
    /\ UNCHANGED <<timeVars, wsVars, wsObs, push_obs>>
    /\ UNCHANGED <<timerVars, start_obs>>

(***************************************************************************)
(* async_setup_entry: midnight_timer (__init__.py), and the price window   *)
(* of const.py.  Days are counted from the day the process started.        *)
(***************************************************************************)
SecondsPerDay == 86400       \* timedelta(days=1), in seconds

DayOfTime(t) == t \div SecondsPerDay

\* tomorrow of midnight_timer: the first midnight after time t.
NextMidnight(t) == (DayOfTime(t) + 1) * SecondsPerDay

\* const.TODAY: datetime.now() formatted when const.py is imported, which is
\* when the process starts (time 0).
TODAY == DayOfTime(0)

\* The window of API_PRICES_ENDPOINT, the endpoint get_prices always
\* requests: window_start=TODAY_START and window_end=TODAY_END, text built
\* once from TODAY.
ApiPricesWindow == TODAY

\* The top of midnight_timer's loop, when the task first runs or when
\* coordinator.async_refresh() has returned: the delay to the next midnight
\* is computed and the task sleeps.  async_refresh catches what the update
\* method raises, so the except branches of the timer are not followed.
MidnightTimer ==
    /\ setup = "loaded"
    /\ \/ mt_pc = "none"
       \/ mt_pc = "refresh" /\ pc = "idle"
    /\ mt_wake' = NextMidnight(now)
    /\ mt_pc' = "sleep"
    /\ UNCHANGED mt_obs
    /\ UNCHANGED <<timeVars, hostVars, hostObs, wsVars, wsObs, dataObs,
                   stopVars, poll_end, hs_obs, start_obs>>

\* The sleep has ended: coordinator.async_refresh() calls get_prices.
\* mt_obs lists, for every fetch the timer triggered, the day it happened
\* on and the window that was requested.
MidnightTimerFire ==
    /\ mt_pc = "sleep"
    /\ now >= mt_wake
    /\ GetPricesCall
    /\ mt_pc' = "refresh"
    /\ mt_obs' = Append(mt_obs, [day |-> DayOfTime(now),
                                 window |-> ApiPricesWindow])
    /\ UNCHANGED mt_wake

(***************************************************************************)
(* PstrykWebSocket (ws.py): frames and messages.                           *)
(***************************************************************************)
\* One period group of a frame: an object with its two fields (a missing
\* field is None), JSON null, or absent from the frame.
Group(g, usage, cost) == [g |-> g, fae_usage |-> usage, fae_cost |-> cost]
AbsentGroup == Group("absent", NoneV, NoneV)
NullGroup   == Group("null", NoneV, NoneV)

\* A decoded payload: a JSON object with the three period groups, or a JSON
\* value that is no object (t = "other").
FrameFull(v) ==
    [t |-> "obj", day_to_date |-> Group("obj", Some(v), Some(v + 10)),
     week_to_date  |-> Group("obj", Some(v + 20), Some(v + 30)),
     month_to_date |-> Group("obj", Some(v + 40), Some(v + 50))]
FramePartial ==
    [t |-> "obj", day_to_date |-> Group("obj", Some(3), NoneV),
     week_to_date  |-> AbsentGroup,
     month_to_date |-> Group("obj", Some(43), Some(53))]
FrameNullGroup == [FrameFull(4) EXCEPT !.day_to_date = NullGroup]
FrameNotObject == [FrameFull(5) EXCEPT !.t = "other"]

Msg(type, enc, data) == [type |-> type, enc |-> enc, data |-> data]

\* Messages that leave the connection open.
DataMessages ==
    { Msg("BINARY", "ok", FrameFull(1)),
      Msg("BINARY", "ok", FrameFull(2)),
      Msg("BINARY", "ok", FramePartial),
      Msg("BINARY", "ok", FrameNullGroup),
      Msg("BINARY", "ok", FrameNotObject),
      Msg("BINARY", "badutf8", FrameNotObject),
      Msg("BINARY", "badjson", FrameNotObject),
      Msg("TEXT", "ok", FrameFull(1)) }

\* Messages that end it.
EndMessages ==
    { Msg("CLOSED", "ok", FrameNotObject), Msg("ERROR", "ok", FrameNotObject) }

UsageKeys ==
    {"today_usage", "today_cost", "week_usage", "week_cost", "month_usage",
     "month_cost"}

\* data.get(period, {}).get(field): raises when data or the group is no dict.
GroupRaises(data, period) == data.t # "obj" \/ data[period].g = "null"
GroupGet(data, period, field) ==
    IF data[period].g = "absent" THEN NoneV ELSE data[period][field]

\* usage_data of _process_ws_message.
UsageData(data) ==
    [today_usage |-> GroupGet(data, "day_to_date", "fae_usage"),
     today_cost  |-> GroupGet(data, "day_to_date", "fae_cost"),
     week_usage  |-> GroupGet(data, "week_to_date", "fae_usage"),
     week_cost   |-> GroupGet(data, "week_to_date", "fae_cost"),
     month_usage |-> GroupGet(data, "month_to_date", "fae_usage"),
     month_cost  |-> GroupGet(data, "month_to_date", "fae_cost")]

\* Faulty variant: the usage group alone is given to the callback.
ProcessWsMessageNoMerge(data, snapshot, callback) ==
    IF \E p \in {"day_to_date", "week_to_date", "month_to_date"} : GroupRaises(data, p)
    THEN [delivered |-> FALSE, U |-> << >>, merged_data |-> << >>]
    ELSE [delivered |-> callback, U |-> UsageData(data),
          merged_data |-> UsageData(data)]

\* _process_ws_message: the usage group is merged into a copy of the API
\* client's snapshot and the copy is given to the callback; nothing is
\* stored.  Any exception is caught and nothing is delivered.
ProcessWsMessage(data, snapshot, callback) ==
    IF \E p \in {"day_to_date", "week_to_date", "month_to_date"} : GroupRaises(data, p)
    THEN [delivered |-> FALSE, U |-> << >>, merged_data |-> << >>]
    ELSE [delivered |-> callback, U |-> UsageData(data),
          merged_data |-> DictUpdate(snapshot, UsageData(data))]

\* A frame of the expected shape, whatever message type carries it.
ValidFrame(msg) ==
    /\ msg.enc = "ok"
    /\ \A p \in {"day_to_date", "week_to_date", "month_to_date"} :
           ~GroupRaises(msg.data, p)

\* What is remembered of a received message.
MsgClass(msg) == [type |-> msg.type, valid |-> ValidFrame(msg)]

\* api_client.meter_id and api_client.access_token as read by ws.py.
MeterIdAccessor(c)     == c.meter_id
AccessTokenAccessor(c) == c.access_token

\* min(backoff * 2 ** (retry_count - 1), max_backoff), in milliseconds:
\* 2 ** -1 is 0.5 in Python.
SleepDelayMs(b, rc, mx) ==
    Min(IF rc >= 1 THEN (b * 1000) * 2 ^ (rc - 1) ELSE (b * 1000) \div 2 ^ (1 - rc),
        mx * 1000)

\* Outcomes of session.ws_connect.
HandshakeOutcomes ==
    {"ok", "ClientResponseError500", "ClientResponseError", "ClientError",
     "Exception"}

(***************************************************************************)
(* PstrykWebSocket: the supervising loop and one connection.               *)
(***************************************************************************)
NoPushObs == [S |-> << >>, U |-> << >>, out |-> << >>]
NoDelivery == [delivered |-> FALSE, U |-> << >>, merged_data |-> << >>]

\* Faulty variant: a payload that cannot be decoded ends the connection.
ConnectWebsocketMessageDecodeFatal(msg, ignored, elapsed, snapshot, callback) ==
    IF elapsed >= ReconnectInterval
    THEN [brk |-> TRUE, ignored |-> ignored, p |-> NoDelivery]
    ELSE IF msg.type = "BINARY"
    THEN IF ~ignored
         THEN [brk |-> FALSE, ignored |-> TRUE, p |-> NoDelivery]
         ELSE IF msg.enc # "ok"
         THEN [brk |-> TRUE, ignored |-> ignored, p |-> NoDelivery]
         ELSE [brk |-> FALSE, ignored |-> ignored,
               p |-> ProcessWsMessage(msg.data, snapshot, callback)]
    ELSE IF msg.type \in {"CLOSED", "ERROR"}
    THEN [brk |-> TRUE, ignored |-> ignored, p |-> NoDelivery]
    ELSE [brk |-> FALSE, ignored |-> ignored, p |-> NoDelivery]

\* Faulty variant: the age of the connection is not looked at.
ConnectWebsocketMessageNoInterval(msg, ignored, elapsed, snapshot, callback) ==
    IF msg.type = "BINARY"
    THEN IF ~ignored
         THEN [brk |-> FALSE, ignored |-> TRUE, p |-> NoDelivery]
         ELSE IF msg.enc # "ok"
         THEN [brk |-> FALSE, ignored |-> ignored, p |-> NoDelivery]
         ELSE [brk |-> FALSE, ignored |-> ignored,
               p |-> ProcessWsMessage(msg.data, snapshot, callback)]
    ELSE IF msg.type \in {"CLOSED", "ERROR"}
    THEN [brk |-> TRUE, ignored |-> ignored, p |-> NoDelivery]
    ELSE [brk |-> FALSE, ignored |-> ignored, p |-> NoDelivery]

\* The body of "async for msg in websocket" for one message; elapsed is
\* datetime.now() - self._last_reconnect.  brk: the loop is left.
ConnectWebsocketMessage(msg, ignored, elapsed, snapshot, callback) ==
    IF elapsed >= ReconnectInterval
    THEN [brk |-> TRUE, ignored |-> ignored, p |-> NoDelivery]
    ELSE IF msg.type = "BINARY"
    THEN IF ~ignored
         THEN [brk |-> FALSE, ignored |-> TRUE, p |-> NoDelivery]
         ELSE IF msg.enc # "ok"
         THEN [brk |-> FALSE, ignored |-> ignored, p |-> NoDelivery]
         ELSE [brk |-> FALSE, ignored |-> ignored,
               p |-> ProcessWsMessage(msg.data, snapshot, callback)]
    ELSE IF msg.type \in {"CLOSED", "ERROR"}
    THEN [brk |-> TRUE, ignored |-> ignored, p |-> NoDelivery]
    ELSE [brk |-> FALSE, ignored |-> ignored, p |-> NoDelivery]

\* Faulty variant: a loop that breaks on every error, shut down or not.
LoopAfterConnectBreaksOnError(outcome, rc, b, shut) ==
    LET rc2 == IF outcome = "return" THEN 0 ELSE rc
        b2  == IF outcome = "return" THEN BaseBackoff ELSE b
    IN  [retry_count |-> rc2, backoff |-> b2,
         next  |-> IF shut \/ outcome = "raise" THEN "done" ELSE "sleep",
         delay |-> SleepDelayMs(b2, rc2, MaxBackoff)]

\* _websocket_loop after _connect_websocket has returned ("return") or
\* raised ("raise"), with retry_count rc: the reset after a return, the
\* break on shutdown, and the sleep that ends the iteration.
LoopAfterConnect(outcome, rc, b, shut) ==
    LET rc2 == IF outcome = "return" THEN 0 ELSE rc
        b2  == IF outcome = "return" THEN BaseBackoff ELSE b
    IN  [retry_count |-> rc2, backoff |-> b2,
         next  |-> IF shut THEN "done" ELSE "sleep",
         delay |-> SleepDelayMs(b2, rc2, MaxBackoff)]

\* The end of one iteration of _websocket_loop; att says how the attempt
\* went ("connected", "failed", "nometer").
EndAttempt(outcome, rc, att) ==
    LET l == LoopAfterConnect(outcome, rc, backoff, shutdown)
    IN  /\ retry_count' = l.retry_count
        /\ backoff' = l.backoff
        /\ ws_pc' = l.next
        /\ slept' = IF l.next = "sleep" THEN l.delay ELSE slept
        /\ last_attempt' = att
        /\ consec' = IF att = "failed" THEN consec + 1 ELSE 0

\* Faulty variant: a start_websocket without the test for an existing task.
StartWebsocketCallAlways ==
    /\ ws_created
    /\ ws_callback' = TRUE
    /\ shutdown' = FALSE
    /\ ws_task' = TRUE
    /\ ws_pc' = "start"
    /\ retry_count' = 0
    /\ backoff' = BaseBackoff
    /\ consec' = 0
    /\ last_attempt' = "none"
    /\ stop_pc' = "none"
    /\ UNCHANGED <<ws, last_reconnect, first_message_ignored, ws_calls>>
    /\ UNCHANGED <<cancelling, stop_from, poll_end, hs_obs>>
    /\ UNCHANGED <<timeVars, hostVars, hostObs, slept, rx, dl, dataObs>>
    /\ UNCHANGED timerVars

\* start_websocket: nothing happens when a task exists.  The new task's
\* locals (retry_count = 0, backoff = 5) are set here, where it is created.
StartWebsocketCall ==
    /\ ws_created
    /\ IF ws_task
       THEN UNCHANGED <<ws_callback, shutdown, ws_task, ws_pc, retry_count,
                        backoff, consec, last_attempt, stop_pc>>
       ELSE /\ ws_callback' = TRUE
            /\ shutdown' = FALSE
            /\ ws_task' = TRUE
            /\ ws_pc' = "start"
            /\ retry_count' = 0
            /\ backoff' = BaseBackoff
            /\ consec' = 0
            /\ last_attempt' = "none"
            /\ stop_pc' = "none"
    /\ UNCHANGED <<ws, last_reconnect, first_message_ignored, ws_calls>>
    /\ UNCHANGED <<cancelling, stop_from, poll_end, hs_obs>>
    /\ UNCHANGED <<timeVars, hostVars, hostObs, slept, rx, dl, dataObs>>
    /\ UNCHANGED timerVars

\* start_websocket called by the host.
StartWebsocket ==
    /\ StartWebsocketCall
    /\ UNCHANGED start_obs

\* The same call, observed: start_obs says whether the call found a task
\* and where stop_websocket was at that moment.
StartWebsocketObserved ==
    /\ StartWebsocketCall
    /\ start_obs' = [found_task |-> ws_task, during |-> stop_pc]

\* stop_websocket from "if self._ws_task:" on: a running task is cancelled
\* and awaited; a finished one is awaited at once; then _ws_task = None.
StopCancel ==
    IF ~ws_task
    THEN /\ stop_pc' = "finished"
         /\ UNCHANGED <<ws_task, cancelling>>
    ELSE IF ws_pc = "done"
    THEN /\ stop_pc' = "finished"
         /\ ws_task' = FALSE
         /\ UNCHANGED cancelling
    ELSE /\ stop_pc' = "awaiting"
         /\ cancelling' = TRUE
         /\ UNCHANGED ws_task

\* stop_websocket is called: up to "await self._ws.close()" when a socket
\* is referenced, otherwise up to "await self._ws_task".
StopWebsocket ==
    /\ ws_created
    /\ stop_pc \in {"none", "finished"}
    /\ shutdown' = TRUE
    /\ stop_from' = ws_pc
    /\ IF ws
       THEN /\ stop_pc' = "closing"
            /\ UNCHANGED <<ws_task, cancelling>>
       ELSE StopCancel
    /\ UNCHANGED <<ws_pc, ws_callback, ws, last_reconnect,
                   first_message_ignored, retry_count, backoff, ws_calls>>
    /\ UNCHANGED <<timeVars, hostVars, hostObs, wsObs, dataObs, poll_end,
                   hs_obs>>
    /\ UNCHANGED <<timerVars, start_obs>>

\* self._ws.close() has returned.
StopOnClosed ==
    /\ stop_pc = "closing"
    /\ StopCancel
    /\ UNCHANGED <<ws_pc, ws_callback, shutdown, ws, last_reconnect,
                   first_message_ignored, retry_count, backoff, ws_calls>>
    /\ UNCHANGED <<timeVars, hostVars, hostObs, wsObs, dataObs, stop_from,
                   poll_end, hs_obs>>
    /\ UNCHANGED <<timerVars, start_obs>>

\* The awaited task has ended: _ws_task = None.
StopOnTaskDone ==
    /\ stop_pc = "awaiting"
    /\ ws_pc = "done"
    /\ stop_pc' = "finished"
    /\ ws_task' = FALSE
    /\ UNCHANGED <<ws_pc, ws_callback, shutdown, ws, last_reconnect,
                   first_message_ignored, retry_count, backoff, ws_calls>>
    /\ UNCHANGED <<timeVars, hostVars, hostObs, wsObs, dataObs, cancelling,
                   stop_from, poll_end, hs_obs>>
    /\ UNCHANGED <<timerVars, start_obs>>

\* Faulty variant: a connection without the finally that drops the socket.
WsCancelledLeaksSocket ==
    /\ cancelling
    /\ ws_pc \in {"start", "handshake", "ws_refresh", "recv", "sleep"}
    /\ cancelling' = FALSE
    /\ ws_pc' = "done"
    /\ UNCHANGED <<ws, ws_task, ws_callback, shutdown, last_reconnect,
                   first_message_ignored, retry_count, backoff, ws_calls>>
    /\ UNCHANGED <<timeVars, hostVars, hostObs, wsObs, dataObs, stop_pc,
                   stop_from, poll_end, hs_obs>>
    /\ UNCHANGED <<timerVars, start_obs>>

\* CancelledError reaches the task at its await.  Before its first step the
\* task ends without running; in _connect_websocket (handshake, refresh in
\* the 500 handler, receive) no except clause takes it, the finally sets
\* _ws = None and the loop's "except asyncio.CancelledError: break" ends the
\* task; in the sleep, which is outside the try, it ends the task.
WsCancelled ==
    /\ cancelling
    /\ ws_pc \in {"start", "handshake", "ws_refresh", "recv", "sleep"}
    /\ cancelling' = FALSE
    /\ ws_pc' = "done"
    /\ ws' = FALSE
    /\ UNCHANGED <<ws_task, ws_callback, shutdown, last_reconnect,
                   first_message_ignored, retry_count, backoff, ws_calls>>
    /\ UNCHANGED <<timeVars, hostVars, hostObs, wsObs, dataObs, stop_pc,
                   stop_from, poll_end, hs_obs>>
    /\ UNCHANGED <<timerVars, start_obs>>

\* One pass through the top of _websocket_loop, when the task first runs or
\* its sleep ends: the loop test, retry_count += 1 and _connect_websocket up
\* to the handshake (or its return when no meter id is known).
WebsocketLoop ==
    /\ ws_pc \in {"start", "sleep"}
    /\ ~cancelling
    /\ retry_count < MaxRetry
    /\ IF shutdown
       THEN /\ ws_pc' = "done"
            /\ UNCHANGED <<retry_count, backoff, ws_calls, slept, consec,
                           last_attempt, hs_obs>>
       ELSE IF MeterIdAccessor(cred) = None
       THEN /\ EndAttempt("return", retry_count + 1, "nometer")
            /\ ws_calls' = << >>
            /\ UNCHANGED hs_obs
       ELSE /\ retry_count' = retry_count + 1
            /\ ws_calls' = << Request("ws", AccessTokenAccessor(cred)) >>
            /\ hs_obs' = [at |-> now, cred |-> cred, outcome |-> "pending"]
            /\ ws_pc' = "handshake"
            /\ UNCHANGED <<backoff, slept, consec, last_attempt>>
    /\ UNCHANGED <<ws_task, ws_callback, shutdown, ws, last_reconnect,
                   first_message_ignored, rx, dl>>
    /\ UNCHANGED <<stopVars, poll_end>>
    /\ UNCHANGED <<timeVars, hostVars, hostObs, dataObs>>
    /\ UNCHANGED <<timerVars, start_obs>>

\* The handshake ends.  On success the connection is set up; on a 500 the
\* handler awaits refresh_token; any other error is raised again.
WsOnHandshake(outcome) ==
    /\ ws_pc = "handshake"
    /\ ~cancelling
    /\ hs_obs' = [hs_obs EXCEPT !.outcome = outcome]
    /\ CASE outcome = "ok" ->
              /\ ws' = TRUE
              /\ last_reconnect' = now
              /\ first_message_ignored' = FALSE
              /\ rx' = << >>
              /\ dl' = << >>
              /\ ws_pc' = "recv"
              /\ UNCHANGED <<retry_count, backoff, ws_calls, slept, consec,
                             last_attempt>>
         [] outcome = "ClientResponseError500" ->
              /\ ws_calls' = Append(ws_calls, RefreshTokenRequest(cred))
              /\ ws_pc' = "ws_refresh"
              /\ UNCHANGED <<ws, last_reconnect, first_message_ignored, rx, dl,
                             retry_count, backoff, slept, consec, last_attempt>>
         [] OTHER ->
              /\ ws' = FALSE
              /\ EndAttempt("raise", retry_count, "failed")
              /\ UNCHANGED <<last_reconnect, first_message_ignored, rx, dl,
                             ws_calls>>
    /\ UNCHANGED <<ws_task, ws_callback, shutdown>>
    /\ UNCHANGED <<stopVars, poll_end>>
    /\ UNCHANGED <<timeVars, hostVars, hostObs, dataObs>>
    /\ UNCHANGED <<timerVars, start_obs>>

\* Faulty variant: a 500 handler that counts the failure twice.
WsOnRefreshExtraStep(resp) ==
    /\ ws_pc = "ws_refresh"
    /\ ~cancelling
    /\ LET r == RefreshTokenResponse(cred, resp, now)
       IN  /\ rt_obs' = RtObs("ws", resp, r, cred, now)
           /\ cred' = r.c
    /\ ws' = FALSE
    /\ EndAttempt("raise", retry_count + 1, "failed")
    /\ UNCHANGED <<ws_task, ws_callback, shutdown, last_reconnect,
                   first_message_ignored, ws_calls, rx, dl>>
    /\ UNCHANGED <<pc, last_data, session_open, setup, ws_created, polls,
                   calls, auth_obs, ens_obs, poll_ret>>
    /\ UNCHANGED <<stopVars, poll_end, hs_obs>>
    /\ UNCHANGED <<timeVars, dataObs>>
    /\ UNCHANGED <<timerVars, start_obs>>

\* The refresh response arrives in the 500 handler: the error is raised
\* again whatever refresh_token returned.
WsOnRefresh(resp) ==
    /\ ws_pc = "ws_refresh"
    /\ ~cancelling
    /\ LET r == RefreshTokenResponse(cred, resp, now)
       IN  /\ rt_obs' = RtObs("ws", resp, r, cred, now)
           /\ cred' = r.c
    /\ ws' = FALSE
    /\ EndAttempt("raise", retry_count, "failed")
    /\ UNCHANGED <<ws_task, ws_callback, shutdown, last_reconnect,
                   first_message_ignored, ws_calls, rx, dl>>
    /\ UNCHANGED <<pc, last_data, session_open, setup, ws_created, polls,
                   calls, auth_obs, ens_obs, poll_ret>>
    /\ UNCHANGED <<stopVars, poll_end, hs_obs>>
    /\ UNCHANGED <<timeVars, dataObs>>
    /\ UNCHANGED <<timerVars, start_obs>>

\* A message arrives on the open connection.
WsOnMessage(msg) ==
    /\ ws_pc = "recv"
    /\ ~cancelling
    /\ msg \in DataMessages => Len(rx) < MaxMsgs
    /\ LET m == ConnectWebsocketMessage(msg, first_message_ignored,
                                        now - last_reconnect, last_data,
                                        ws_callback)
       IN  /\ first_message_ignored' = m.ignored
           /\ IF msg \in DataMessages
              THEN /\ rx' = Append(rx, MsgClass(msg))
                   /\ dl' = Append(dl, m.p.delivered)
              ELSE UNCHANGED <<rx, dl>>
           /\ IF m.p.delivered
              THEN /\ handed' = [src |-> "push", data |-> m.p.merged_data]
                   /\ written' = DictUpdate(written, m.p.U)
                   /\ push_obs' = [S |-> last_data, U |-> m.p.U,
                                   out |-> m.p.merged_data]
              ELSE UNCHANGED <<handed, written, push_obs>>
           /\ IF m.brk
              THEN /\ ws' = FALSE
                   /\ EndAttempt("return", retry_count, "connected")
              ELSE UNCHANGED <<ws, retry_count, backoff, ws_pc, slept,
                               last_attempt, consec>>
    /\ UNCHANGED <<ws_task, ws_callback, shutdown, last_reconnect, ws_calls>>
    /\ UNCHANGED <<stopVars, poll_end, hs_obs>>
    /\ UNCHANGED <<timeVars, hostVars, hostObs>>
    /\ UNCHANGED <<timerVars, start_obs>>

(***************************************************************************)
(* Time.                                                                   *)
(***************************************************************************)
\* The clock advances by d seconds.
Tick(d) ==
    /\ ticks < MaxTicks
    /\ ticks' = ticks + 1
    /\ now' = now + d
    /\ UNCHANGED <<hostVars, hostObs, wsVars, wsObs, dataObs, stopVars,
                   poll_end, hs_obs>>
    /\ UNCHANGED <<timerVars, start_obs>>

(***************************************************************************)
(* Specifications.                                                         *)
(***************************************************************************)
Init ==
    /\ now = 0 /\ ticks = 0
    /\ pc = "new" /\ cred = NewCred /\ last_data = << >>
    /\ session_open = FALSE /\ setup = "none" /\ ws_created = FALSE
    /\ polls = 0
    /\ calls = << >> /\ auth_obs = NoAuthObs /\ ens_obs = NoEnsObs
    /\ rt_obs = NoRtObs /\ poll_ret = "none"
    /\ ws_pc = "none" /\ ws_task = FALSE /\ ws_callback = FALSE
    /\ shutdown = FALSE /\ ws = FALSE /\ last_reconnect = 0
    /\ first_message_ignored = TRUE /\ retry_count = 0
    /\ backoff = BaseBackoff /\ ws_calls = << >>
    /\ slept = 0 /\ consec = 0 /\ last_attempt = "none"
    /\ rx = << >> /\ dl = << >>
    /\ handed = [src |-> "none", data |-> << >>] /\ written = << >>
    /\ push_obs = NoPushObs
    /\ stop_pc = "none" /\ cancelling = FALSE /\ stop_from = "none"
    /\ poll_end = NoPollEnd /\ hs_obs = NoHsObs
    /\ start_obs = NoStartObs
    /\ mt_pc = "none" /\ mt_wake = 0 /\ mt_obs = << >>

SetupNext ==
    \/ AsyncSetupEntry
    \/ \E resp \in LoginResponses : SetupOnLogin(resp)
    \/ \E resp \in MeterResponses : SetupOnMeter(resp)

PollNext ==
    \/ GetPrices
    \/ \E resp \in MeterResponses : PollOnMeter(resp)
    \/ \E resp \in RefreshResponses : EnsureOnRefresh(resp)
    \/ \E resp \in LoginResponses : EnsureOnLogin(resp)
    \/ \E resp \in MeterResponses : EnsureOnMeter(resp)
    \/ \E resp \in PriceResponses : PollOnPrices(resp)

\* The host task alone: setup, then polls, as time passes.
Next ==
    \/ \E d \in {1, TokenValidity} : Tick(d)
    \/ SetupNext
    \/ PollNext

Spec == Init /\ [][Next]_vars

\* The push task after setup, with every outcome of the handshake and
\* every kind of message.
NextPush ==
    \/ SetupNext
    \/ StartWebsocket
    \/ WebsocketLoop
    \/ \E outcome \in HandshakeOutcomes : WsOnHandshake(outcome)
    \/ \E resp \in RefreshResponses : WsOnRefresh(resp)
    \/ \E msg \in DataMessages \cup EndMessages : WsOnMessage(msg)

SpecPush == Init /\ [][NextPush]_vars

\* Frames of the expected shape in binary messages.
ValidMessages == {m \in DataMessages : m.type = "BINARY" /\ ValidFrame(m)}

\* Polls and push frames interleaved, after a setup that authenticated:
\* every handshake succeeds and every frame is of the expected shape.
NextMerge ==
    \/ AsyncSetupEntry
    \/ \E resp \in {r \in LoginResponses : r.kind = "ok"} : SetupOnLogin(resp)
    \/ \E resp \in {r \in MeterResponses : r.kind = "ok"} : SetupOnMeter(resp)
    \/ GetPrices
    \/ \E resp \in PriceResponses : PollOnPrices(resp)
    \/ StartWebsocket
    \/ WebsocketLoop
    \/ WsOnHandshake("ok")
    \/ \E msg \in ValidMessages \cup EndMessages : WsOnMessage(msg)

SpecMerge == Init /\ [][NextMerge]_vars

\* The push task started and stopped by the host at any moment, after a
\* setup that authenticated.
NextStop ==
    \/ AsyncSetupEntry
    \/ \E resp \in {r \in LoginResponses : r.kind = "ok"} : SetupOnLogin(resp)
    \/ \E resp \in {r \in MeterResponses : r.kind = "ok"} : SetupOnMeter(resp)
    \/ StartWebsocketObserved
    \/ StopWebsocket
    \/ StopOnClosed
    \/ StopOnTaskDone
    \/ WsCancelled
    \/ WebsocketLoop
    \/ \E outcome \in HandshakeOutcomes : WsOnHandshake(outcome)
    \/ \E resp \in RefreshResponses : WsOnRefresh(resp)
    \/ \E msg \in ValidMessages \cup EndMessages : WsOnMessage(msg)

SpecStop == Init /\ [][NextStop]_vars

\* Polls and the push task as time passes, after a setup that authenticated:
\* tokens expire, are refreshed, and the session is authenticated again,
\* while the push connection is made, closed by the server and made again.
\* Every request is answered 200 with the expected body, 200 with a record
\* without id (meter), or with another status.
SessionKinds == {"ok", "noid", "status"}

NextSession ==
    \/ Tick(TokenValidity)
    \/ AsyncSetupEntry
    \/ \E resp \in {r \in LoginResponses : r.kind = "ok"} : SetupOnLogin(resp)
    \/ \E resp \in {r \in MeterResponses : r.kind = "ok"} : SetupOnMeter(resp)
    \/ GetPrices
    \/ \E resp \in {r \in MeterResponses : r.kind \in SessionKinds} :
           PollOnMeter(resp)
    \/ \E resp \in {r \in RefreshResponses : r.kind \in SessionKinds} :
           EnsureOnRefresh(resp)
    \/ \E resp \in {r \in LoginResponses : r.kind \in SessionKinds} :
           EnsureOnLogin(resp)
    \/ \E resp \in {r \in MeterResponses : r.kind \in SessionKinds} :
           EnsureOnMeter(resp)
    \/ \E resp \in {r \in PriceResponses : r.kind \in SessionKinds} :
           PollOnPrices(resp)
    \/ StartWebsocket
    \/ WebsocketLoop
    \/ WsOnHandshake("ok")
    \/ WsOnMessage(Msg("CLOSED", "ok", FrameNotObject))

SpecSession == Init /\ [][NextSession]_vars

\* The push task left to run, never stopped.  The event loop resumes a task
\* whose sleep has ended, and the refresh POST ends (with a response, an
\* error or its 10 s timeout): these steps are weakly fair.  Nothing makes
\* the server send a message or close an open connection.
NextLive ==
    \/ SetupNext
    \/ StartWebsocket
    \/ WebsocketLoop
    \/ \E outcome \in HandshakeOutcomes : WsOnHandshake(outcome)
    \/ \E resp \in RefreshResponses : WsOnRefresh(resp)
    \/ \E msg \in ValidMessages \cup EndMessages : WsOnMessage(msg)

SpecLive ==
    /\ Init /\ [][NextLive]_vars
    /\ WF_vars(WebsocketLoop)
    /\ WF_vars(\E resp \in RefreshResponses : WsOnRefresh(resp))

\* The two writers of the credentials side by side: polls whose token has
\* expired (refresh_token, then authenticate) and the push task whose
\* handshake is answered 500 (refresh_token).  A login is answered 200 with
\* both tokens, 200 without "refresh", or with another status; a refresh
\* 200 with a token or with another status.
CredKinds == {"ok", "status"}

NextCred ==
    \/ Tick(TokenValidity)
    \/ AsyncSetupEntry
    \/ \E resp \in {r \in LoginResponses : r.kind = "ok"} : SetupOnLogin(resp)
    \/ \E resp \in {r \in MeterResponses : r.kind = "ok"} : SetupOnMeter(resp)
    \/ GetPrices
    \/ \E resp \in {r \in RefreshResponses : r.kind \in CredKinds} :
           EnsureOnRefresh(resp)
    \/ \E resp \in {r \in LoginResponses :
                       r.kind \in CredKinds \cup {"norefresh"}} :
           EnsureOnLogin(resp)
    \/ \E resp \in {r \in MeterResponses : r.kind = "ok"} : EnsureOnMeter(resp)
    \/ \E resp \in {r \in PriceResponses : r.kind = "status"} :
           PollOnPrices(resp)
    \/ StartWebsocket
    \/ WebsocketLoop
    \/ WsOnHandshake("ClientResponseError500")
    \/ \E resp \in {r \in RefreshResponses : r.kind \in CredKinds} :
           WsOnRefresh(resp)

SpecCred == Init /\ [][NextCred]_vars

\* One connection as hours pass: every handshake succeeds, the server sends
\* frames of the expected shape or closes, and the clock advances by one
\* hour or by the reconnect interval.
NextReconnect ==
    \/ AsyncSetupEntry
    \/ \E resp \in {r \in LoginResponses : r.kind = "ok"} : SetupOnLogin(resp)
    \/ \E resp \in {r \in MeterResponses : r.kind = "ok"} : SetupOnMeter(resp)
    \/ \E d \in {ReconnectInterval \div 2, ReconnectInterval} : Tick(d)
    \/ StartWebsocket
    \/ WebsocketLoop
    \/ WsOnHandshake("ok")
    \/ \E msg \in ValidMessages \cup EndMessages : WsOnMessage(msg)

SpecReconnect == Init /\ [][NextReconnect]_vars

\* The rollover timer over two days, after a setup that authenticated: the
\* clock advances by half a day or by a day, the host polls as well, and
\* every request is answered 200 with the expected body or with another
\* status.
NextTimer ==
    \/ \E d \in {SecondsPerDay \div 2, SecondsPerDay} : Tick(d)
    \/ AsyncSetupEntry
    \/ \E resp \in {r \in LoginResponses : r.kind = "ok"} : SetupOnLogin(resp)
    \/ \E resp \in {r \in MeterResponses : r.kind = "ok"} : SetupOnMeter(resp)
    \/ MidnightTimer
    \/ MidnightTimerFire
    \/ GetPrices
    \/ \E resp \in {r \in RefreshResponses : r.kind \in CredKinds} :
           EnsureOnRefresh(resp)
    \/ \E resp \in {r \in LoginResponses : r.kind \in CredKinds} :
           EnsureOnLogin(resp)
    \/ \E resp \in {r \in MeterResponses : r.kind \in CredKinds} :
           EnsureOnMeter(resp)
    \/ \E resp \in {r \in PriceResponses : r.kind \in CredKinds} :
           PollOnPrices(resp)

SpecTimer == Init /\ [][NextTimer]_vars

(***************************************************************************)
(* Properties.                                                             *)
(***************************************************************************)
CountEp(reqs, ep) == Cardinality({i \in 1..Len(reqs) : reqs[i].ep = ep})

\* C1: the snapshot last handed to the host (returned by get_prices or
\* passed to the push callback) contains every key ever written, with the
\* value written last.
C1_HandedSnapshotKeepsEveryKey ==
    \A k \in DOMAIN written :
        k \in DOMAIN handed.data /\ handed.data[k] = written[k]

\* C2: the mapping passed to the push callback is the stored snapshot S
\* updated with the usage group U: its keys are those of S and of U, U's
\* values win, the others are S's, so every price key passes unchanged.
C2_PushMergeIsShallowUpdate ==
    (push_obs # NoPushObs) =>
        LET S == push_obs.S
            U == push_obs.U
            R == push_obs.out
        IN  /\ DOMAIN U = UsageKeys
            /\ DOMAIN R = (DOMAIN S) \cup (DOMAIN U)
            /\ \A k \in DOMAIN U : R[k] = U[k]
            /\ \A k \in (DOMAIN S) \ (DOMAIN U) : R[k] = S[k]
            /\ \A k \in PriceKeys \cap (DOMAIN S) : R[k] = S[k]

\* A push frame was merged into a snapshot that held the price group.
C2_Witness ==
    /\ push_obs # NoPushObs
    /\ PriceKeys \subseteq DOMAIN push_obs.S
    /\ handed = [src |-> "push", data |-> push_obs.out]

\* C3: when the initial authenticate() fails, setup fails (the session is
\* closed, ConfigEntryNotReady is raised, no push client is created); setup
\* succeeds only when the initial authentication succeeded.
C3_SetupFailsWhenAuthenticationFails ==
    /\ (auth_obs.first = "False") =>
           (setup = "notready" /\ ~session_open /\ ~ws_created)
    /\ (setup = "loaded") => (auth_obs.first = "True")

\* C4: _ensure_token_valid called with an access token held and the time
\* strictly before its expiry sends no request and leaves the credentials
\* as they were; the GET that follows carries that access token and the
\* operation holds no refresh and no login request.
C4_ValidTokenNoNetworkCall ==
    ( /\ ens_obs.ran
      /\ ens_obs.pre.access_token # None
      /\ ens_obs.pre.token_expires.some
      /\ ens_obs.at < ens_obs.pre.token_expires.v )
    => /\ ens_obs.done
       /\ ~ens_obs.raised
       /\ EnsureRequests = << >>
       /\ ens_obs.post = ens_obs.pre
       /\ CountEp(calls, "refresh") = 0
       /\ CountEp(calls, "login") = 0
       /\ Last(calls) = Request("prices", ens_obs.pre.access_token)

\* Login at time 0 (expiry 0 + 10 min), fetch at time 1 with the login's
\* access token.
C4_Witness ==
    /\ pc = "prices"
    /\ ens_obs.ran
    /\ ens_obs.at = 1
    /\ ens_obs.pre.access_token = "a1"
    /\ ens_obs.pre.token_expires = Some(TokenValidity)
    /\ Last(calls) = Request("prices", "a1")

\* C5: _ensure_token_valid called at a time >= expiry with a refresh token
\* held, when the refresh endpoint answers 200 with a token, sends exactly
\* one refresh request and no login; afterwards the access token is the
\* refreshed one and the expiry is the time of the refresh + 10 min.
C5_ExpiredTokenIsRefreshed ==
    ( /\ ens_obs.ran
      /\ ens_obs.done
      /\ ens_obs.pre.access_token # None
      /\ ens_obs.pre.token_expires.some
      /\ ens_obs.at >= ens_obs.pre.token_expires.v
      /\ ens_obs.pre.refresh_token # None
      /\ rt_obs.kind = "ok" )
    => /\ Len(EnsureRequests) = 1
       /\ EnsureRequests[1].ep = "refresh"
       /\ ens_obs.post.access_token = rt_obs.access
       /\ ens_obs.post.token_expires = Some(rt_obs.at + TokenValidity)

\* An expired token was refreshed, some time after the check was made.
C5_Witness ==
    /\ ens_obs.ran /\ ens_obs.done
    /\ ens_obs.pre.access_token = "a1"
    /\ ens_obs.pre.refresh_token = "r1"
    /\ ens_obs.pre.token_expires.some
    /\ ens_obs.at >= ens_obs.pre.token_expires.v
    /\ rt_obs.kind = "ok"
    /\ rt_obs.at > ens_obs.at
    /\ ens_obs.post.access_token = "a2"

\* C6: _ensure_token_valid with no access token or an expired one makes
\* exactly one authenticate() exactly when no refresh token is held or the
\* refresh failed, and none otherwise; it never raises; with a valid token
\* it changes nothing.
C6_FallbackToAuthenticate ==
    (ens_obs.ran /\ ens_obs.done) =>
        LET needed ==
                \/ ens_obs.pre.access_token = None
                \/ ( /\ ens_obs.pre.token_expires.some
                     /\ ens_obs.at >= ens_obs.pre.token_expires.v )
            refreshFailed ==
                CountEp(EnsureRequests, "refresh") = 1 /\ ~rt_obs.ret
        IN  /\ ~ens_obs.raised
            /\ CountEp(EnsureRequests, "login") <= 1
            /\ needed =>
                 ( CountEp(EnsureRequests, "login") = 1
                     <=> (ens_obs.pre.refresh_token = None \/ refreshFailed) )
            /\ ~needed => (EnsureRequests = << >> /\ ens_obs.post = ens_obs.pre)

\* The refresh of an expired token failed and one login followed.
C6_Witness ==
    /\ ens_obs.ran /\ ens_obs.done
    /\ ens_obs.pre.refresh_token # None
    /\ ens_obs.at >= ens_obs.pre.token_expires.v
    /\ CountEp(EnsureRequests, "refresh") = 1
    /\ ~rt_obs.ret
    /\ CountEp(EnsureRequests, "login") = 1

\* C7: the credential posted to the refresh endpoint is the stored refresh
\* token.
C7_RefreshPostsRefreshToken ==
    /\ (pc = "refresh") => (Last(calls).tok = cred.refresh_token)
    /\ (ws_pc = "ws_refresh") => (Last(ws_calls).tok = cred.refresh_token)

\* C8: when refresh_token() fails it returns False, raises nothing, and
\* access token, refresh token, expiry and meter id stay as they were.
C8_FailedRefreshChangesNothing ==
    [][ (pc = "refresh" /\ pc' # "refresh" /\ rt_obs'.kind # "ok")
          => (cred' = cred /\ rt_obs'.ret = FALSE /\ ~rt_obs'.raised) ]_vars

\* A refresh of an expired token was answered with a status other than 200.
C8_Witness ==
    /\ rt_obs.by = "poll"
    /\ rt_obs.kind = "status"
    /\ rt_obs.pre.access_token = "a1"
    /\ rt_obs.pre.meter_id = "m1"

\* C9: after the k-th consecutive failed attempt the loop sleeps
\* min(5 * 2^(k-1), 300) seconds, and after a successful connection it
\* sleeps the base value of 5 seconds.
C9_BackoffSequence ==
    (ws_pc = "sleep") =>
        /\ (last_attempt = "failed") =>
               slept = Min(BaseBackoff * 1000 * 2 ^ (consec - 1), MaxBackoff * 1000)
        /\ (last_attempt = "connected") => slept = BaseBackoff * 1000

\* C10: on every connection the first message is not delivered to the
\* callback and the second message, when it is a valid frame, is.
C10_FirstDiscardedSecondDelivered ==
    /\ (Len(dl) >= 1) => ~dl[1]
    /\ (Len(dl) >= 2 /\ rx[2].type = "BINARY" /\ rx[2].valid) => dl[2]

\* C11: a handshake rejected with HTTP 500 is followed by exactly one
\* refresh request before the loop sleeps; the sleep is the delay of one
\* failure at that retry count, min(5 * 2^(retry_count - 1), 300) s, with
\* retry_count counting the consecutive failures; the next attempt is one
\* retry further and, when the refresh succeeded, sends the refreshed token.
C11_Handshake500RefreshesOnce ==
    /\ []( (ws_pc = "sleep" /\ hs_obs.outcome = "ClientResponseError500") =>
             /\ Len(ws_calls) = 2
             /\ ws_calls[1].ep = "ws"
             /\ ws_calls[2].ep = "refresh"
             /\ rt_obs.by = "ws"
             /\ last_attempt = "failed"
             /\ consec = retry_count
             /\ slept = Min(BaseBackoff * 1000 * 2 ^ (retry_count - 1),
                            MaxBackoff * 1000) )
    /\ [][ ( /\ ws_pc = "sleep"
             /\ hs_obs.outcome = "ClientResponseError500"
             /\ ws_pc' = "handshake" )
           => /\ retry_count' = retry_count + 1
              /\ Len(ws_calls') = 1
              /\ rt_obs.ret => ws_calls'[1] = Request("ws", rt_obs.access) ]_vars

\* The attempt after a 500 whose refresh succeeded carries the new token.
C11_Witness ==
    /\ ws_pc = "handshake"
    /\ retry_count = 2
    /\ rt_obs.by = "ws" /\ rt_obs.ret
    /\ hs_obs.cred.access_token = "a2"
    /\ ws_calls = << Request("ws", "a2") >>

\* C12: once stop_websocket has completed, and until start_websocket is
\* called again, no socket is referenced (_ws is None), the task is finished
\* and forgotten (_ws_task is None), the shutdown flag is set, and no
\* connection attempt is made, wherever the task was when stop was called.
C12_StoppedStaysStopped ==
    /\ []( (stop_pc = "finished") =>
             /\ ~ws
             /\ ~ws_task
             /\ ~cancelling
             /\ shutdown
             /\ ws_pc \in {"none", "done"} )
    /\ [][ (stop_pc = "finished" /\ stop_pc' = "finished")
           => (ws_pc' = ws_pc /\ ws_calls' = ws_calls /\ hs_obs' = hs_obs) ]_vars

\* stop_websocket completed after being called with the socket open and the
\* task waiting for a message.
C12_Witness ==
    /\ stop_pc = "finished"
    /\ stop_from = "recv"
    /\ ws_pc = "done"
    /\ hs_obs.outcome = "ok"

\* C13: while the push client is not shut down its task never ends, and
\* after a closed connection or a failed attempt (the loop is in the 500
\* handler, or in its sleep after a connection or a failure) another
\* handshake is eventually attempted.  The model follows retry_count up to
\* MaxRetry.
C13_LoopNeverExits ==
    /\ []((ws_task /\ ~shutdown) => ws_pc # "done")
    /\ ( ( /\ \/ ws_pc = "ws_refresh"
              \/ ws_pc = "sleep" /\ last_attempt \in {"connected", "failed"}
           /\ retry_count < MaxRetry )
         ~> (ws_pc = "handshake") )

\* A new handshake after a server close, and one after three failures.
C13_Witness ==
    /\ ws_pc = "handshake"
    /\ hs_obs.outcome = "pending"
    /\ \/ last_attempt = "connected" /\ retry_count = 1
       \/ last_attempt = "failed" /\ retry_count = 4

\* C14: two consecutive attempts of the push loop are separated by a sleep
\* of at least the base backoff of 5 s, however the previous attempt ended
\* (error, clean close, no meter id).
C14_NoTightRetry ==
    (ws_pc = "sleep") => (slept >= BaseBackoff * 1000)

C16_FailedFetchReturnsNone ==
    /\ [](poll_ret # "raised")
    /\ [][ ( /\ poll_ret = "pending"
             /\ poll_ret' # "pending"
             /\ \/ poll_end'.ep = "meter"
                \/ poll_end'.ep = "prices" /\ poll_end'.kind \in {"status", "error"} )
           => (poll_ret' = "None" /\ last_data' = last_data) ]_vars

\* A fetch failed after an earlier one had stored prices.
C16_Witness ==
    /\ poll_ret = "None"
    /\ poll_end.ep = "prices"
    /\ poll_end.kind = "error"
    /\ PriceKeys \subseteq DOMAIN last_data

\* The frames of the current period (the first 24) that carry a start and
\* a price, and the start of the cheapest of them, the earliest on a tie.
PricedIndices(frames) ==
    {i \in 1..Min(24, Len(frames)) : frames[i].start.some /\ frames[i].price_gross.some}
CheapestStart(frames) ==
    LET I == PricedIndices(frames)
        c == CHOOSE i \in I :
                 \A j \in I :
                     \/ frames[i].price_gross.v < frames[j].price_gross.v
                     \/ ( /\ frames[i].price_gross.v = frames[j].price_gross.v
                          /\ i <= j )
    IN  frames[c].start.v

\* C17: after get_prices returned a snapshot built from priced frames, the
\* value of the today_cheapest_hour sensor is the start of the cheapest of
\* the first 24 frames, the earliest on a tie.
C17_CheapestHourInSnapshot ==
    ( /\ handed.src = "poll"
      /\ poll_ret = "data"
      /\ PricedIndices(poll_end.frames) # {} )
    => SensorNativeValue(handed.data, "today_cheapest_hour")
           = Some(CheapestStart(poll_end.frames))

\* C18: every GET that a get_prices call sends with the bearer token (the
\* meter GET and the price GET) is sent after _ensure_token_valid has been
\* entered in that call.
C18_TokenCheckedBeforeEveryRequest ==
    (polls >= 1 /\ pc \in {"idle", "meter0", "refresh", "login", "meter1", "prices"})
    => \A i \in 1..Len(calls) :
           (calls[i].ep \in {"meter", "prices"}) =>
               (ens_obs.ran /\ ens_obs.from < i)

C20_MeterIdCached ==
    /\ [](\A i \in 1..Len(ws_calls) : ws_calls[i].ep # "meter")
    /\ [][ (calls' # calls /\ calls' # << >> /\ Last(calls').ep = "meter")
           => (pc \in {"s_login", "login"} \/ cred.meter_id = None) ]_vars
    /\ [][ (cred'.meter_id # cred.meter_id)
           => (pc \in {"s_meter", "meter1"} \/ cred.meter_id = None) ]_vars

\* With the id cached since setup: a second get_prices has reached its price
\* GET without a meter request while the push loop reconnects after a close.
C20_Witness ==
    /\ pc = "prices"
    /\ polls = 2
    /\ cred.meter_id = "m1"
    /\ CountEp(calls, "meter") = 0
    /\ ws_pc = "handshake"
    /\ last_attempt = "connected"

\* C21: on a connection that is ReconnectInterval old or older, the next
\* message is not delivered to the callback, whatever it is: it ends the
\* connection and the supervising loop goes to its sleep before the next
\* connection, with the retry count reset.
C21_NoFrameAfterReconnectInterval ==
    [][(/\ ws_pc = "recv"
        /\ now - last_reconnect >= ReconnectInterval
        /\ (rx' # rx \/ ws_pc' # ws_pc))
       => (/\ handed' = handed
           /\ rx' # rx => ~Last(dl')
           /\ ~ws'
           /\ ws_pc' = "sleep"
           /\ retry_count' = 0
           /\ slept' = SleepDelayMs(BaseBackoff, 0, MaxBackoff))]_vars

\* A connection that delivered its second frame, and whose third frame, of
\* the expected shape, came when the connection was two hours old.
C21_Witness ==
    /\ ws_pc = "sleep" /\ last_attempt = "connected"
    /\ now - last_reconnect >= ReconnectInterval
    /\ Len(rx) = 3 /\ dl = <<FALSE, TRUE, FALSE>>
    /\ rx[3] = MsgClass(Msg("BINARY", "ok", FrameFull(2)))

\* C22: the stored access token and its expiry are written together: a
\* step that changes either leaves a token and the expiry of that step's
\* response, ten minutes after the response.
C22_TokenAndExpiryWrittenTogether ==
    [][(\/ cred'.access_token # cred.access_token
        \/ cred'.token_expires # cred.token_expires)
       => (/\ cred'.access_token # None
           /\ cred'.token_expires = Some(now + TokenValidity))]_vars

\* C23: every step that changes the stored snapshot or the snapshot handed
\* to the host applies one whole update: a poll writes the five price keys
\* of one response into the stored snapshot and hands that snapshot over, a
\* push frame hands over the stored snapshot with the six usage keys of one
\* frame and stores nothing.  No state lies between the old snapshot and
\* the new one.
C23_UpdatesAreWhole ==
    [][(last_data' # last_data \/ handed' # handed)
       => \/ \E resp \in {r \in PriceResponses : r.kind = "ok"} :
                /\ pc = "prices"
                /\ last_data' = DictUpdate(last_data, PriceData(resp, now))
                /\ handed' = [src |-> "poll", data |-> last_data']
          \/ \E msg \in ValidMessages :
                /\ ws_pc = "recv"
                /\ last_data' = last_data
                /\ handed' = [src |-> "push",
                              data |-> DictUpdate(last_data,
                                                  UsageData(msg.data))]]_vars

\* A push frame delivered while a poll is waiting for its price response,
\* after an earlier poll stored prices.
C23_Witness ==
    /\ pc = "prices" /\ polls = 2
    /\ handed.src = "push"
    /\ PriceKeys \cup UsageKeys \subseteq DOMAIN handed.data

\* C24: a delivered push frame that has no value for a usage key (its group
\* or its field is absent) leaves a known value of that key as it was in
\* the snapshot handed to the host before.
C24_AbsentFieldKeepsValue ==
    [][(handed' # handed /\ handed'.src = "push")
       => \A k \in UsageKeys \cap DOMAIN handed.data :
             (handed.data[k].some /\ ~push_obs'.U[k].some)
                => (k \in DOMAIN handed'.data
                    /\ handed'.data[k] = handed.data[k])]_vars

\* C25: whenever _make_api_call sends its GET, the stored access token is
\* present and not expired at that moment.
C25_NoGetWithoutValidToken ==
    [][(pc' = "prices" /\ pc # "prices") => ~NeedsToken(cred', now')]_vars

StoredTokens(c) == <<c.access_token, c.refresh_token, c.token_expires>>

\* C26: when authenticate() returns False (in setup or in
\* _ensure_token_valid), the access token, the refresh token and the expiry
\* are the ones stored before the call.
C26_FailedAuthenticateChangesNothing ==
    [][(/\ pc \in {"s_login", "s_meter", "login", "meter1"}
        /\ pc' \notin {"s_login", "s_meter", "login", "meter1"}
        /\ auth_obs'.last = "False")
       => StoredTokens(cred') = StoredTokens(auth_obs'.pre)]_vars

FramesWithStartAndPrice(frames) ==
    {i \in 1..Len(frames) : frames[i].start.some /\ frames[i].price_gross.some}

\* C28: after get_prices returned the snapshot of a 200 response, every
\* frame with a start and a gross price is in hourly_prices under its start
\* with that price, and hourly_prices has as many entries as such frames
\* have distinct starts.
C28_EveryPricedFrameListed ==
    (pc = "idle" /\ poll_ret = "data" /\ poll_end.kind = "ok")
    => LET F  == poll_end.frames
           I  == FramesWithStartAndPrice(F)
           hp == last_data["hourly_prices"]
       IN  /\ \A i \in I : /\ F[i].start.v \in DOMAIN hp
                           /\ hp[F[i].start.v] = F[i].price_gross.v
           /\ Cardinality(DOMAIN hp) = Cardinality({F[i].start.v : i \in I})

\* C29: the fetches that midnight_timer triggers happen on different days,
\* one after the other, and each requests the price window of the day it
\* happens on.
C29_MidnightFetchRequestsNewDay ==
    \A i \in 1..Len(mt_obs) :
        /\ mt_obs[i].window = mt_obs[i].day
        /\ \A j \in 1..Len(mt_obs) : i < j => mt_obs[i].day < mt_obs[j].day

====
